---- MODULE Spec2Model ----
(***************************************************************************)
(* Outgoing-transaction reconciliation pipeline of safe-react:             *)
(* loadOutgoingTransactions / buildTransactionFrom                         *)
(* (src/routes/safe/store/actions/transactions/fetchTransactions/          *)
(*  loadOutgoingTransactions.js).                                          *)
(*                                                                         *)
(* Strings that the code slices or searches are sequences: call data is a  *)
(* sequence of words whose head is the 4-byte method id, deployed bytecode *)
(* is a sequence of selectors, a decimal numeral is a sequence of one-     *)
(* character strings.  A nullable string is a record [present, hex].       *)
(***************************************************************************)
EXTENDS Integers, Sequences, FiniteSets, TLC

VARIABLES
    prevSaveTransactionsEtag, \* module-level `let prevSaveTransactionsEtag`
    tokens,                   \* state[TOKEN_REDUCER_ID]: addresses of known tokens
    pc,                       \* per invocation: position in loadOutgoingTransactions
    safeAddress,              \* per invocation: argument safeAddress
    config,                   \* per invocation: If-None-Match header sent ("none" if no config)
    response,                 \* per invocation: how the history request was answered
    transactions,             \* per invocation: local `transactions`
    txsWithData,              \* per invocation: bytecode fetched for each transaction
    txsRecord,                \* per invocation: one slot per buildTransactionFrom promise
    ret,                      \* per invocation: what the returned promise settled with
    logged,                   \* per invocation: console.error was called
    delivered,                \* history: <<wallet, ETag>> of the responses a result was returned for
    normTx,                   \* buildTransactionFrom called on its own: arguments
    normOut,                  \* buildTransactionFrom called on its own: settled outcome
    store,                    \* redux state: the safes map and the address book
    storage,                  \* local storage written by saveSafes, saveDefaultSafe, saveActiveTokens
    mwPending,                \* safeStorageMware calls suspended at `await saveSafes`
    mwLog,                    \* history: what safeStorageMware did with each action it was passed
    dispatches                \* history: number of actions dispatched from outside the middleware

vars == <<prevSaveTransactionsEtag, tokens, pc, safeAddress, config, response,
          transactions, txsWithData, txsRecord, ret, logged, delivered, normTx, normOut,
          store, storage, mwPending, mwLog, dispatches>>

mwVars == <<store, storage, mwPending, mwLog, dispatches>>

loadVars == <<prevSaveTransactionsEtag, tokens, pc, safeAddress, config, response,
              transactions, txsWithData, txsRecord, ret, logged, delivered>>

-----------------------------------------------------------------------------
(* Bounds *)

MaxResults == 2     \* longest `results` list of a history response
MaxRaceResults == 1 \* the same, for two overlapping invocations
MaxGasPrice == 2    \* largest gasPrice of a raw transaction
MaxGas == 4         \* largest baseGas / safeTxGas of a raw transaction
MaxDecimals == 3    \* largest `decimals` a token lookup returns
MaxDispatches == 2  \* actions dispatched to the store from outside the middleware

-----------------------------------------------------------------------------
(* Program constants *)

ZERO_ADDRESS == "0x0000"
EMPTY_DATA == <<"0x">>
SAFE_TRANSFER_FROM_WITHOUT_DATA_HASH == "42842e0e"
TRANSFER_METHOD_ID == "0xa9059cbb"
MULTISEND_METHOD_ID == "0x8d80ff0a"
CHANGE_MASTER_COPY_ID == "7de7edef"
ADD_OWNER_METHOD_ID == "0x0d582f13"
ETH_SYMBOL == "ETH"
ETH_DECIMALS == 18

-----------------------------------------------------------------------------
(* Nullable strings *)

Null == [present |-> FALSE, hex |-> <<>>]

Str(s) == [present |-> TRUE, hex |-> s]

\* JavaScript truthiness of a nullable string: null and '' are falsy
Truthy(d) == d.present /\ d.hex # <<>>

-----------------------------------------------------------------------------
(* Addresses *)

SafeA == "0xsafea"
SafeAChecksum == "0xSafeA"
SafeB == "0xsafeb"
TokenT == "0xtoken"
TokenG == "0xgastk"
Other == "0xother"

toLowerCase(a) == IF a = SafeAChecksum THEN SafeA ELSE a

\* ~/logic/wallets/ethAddresses sameAddress: case-insensitive, false on empty
sameAddress(a, b) ==
    IF a = "" \/ b = "" THEN FALSE ELSE toLowerCase(a) = toLowerCase(b)

-----------------------------------------------------------------------------
(* Decimal numerals as sequences of characters *)

Digit(n) == CASE n = 0 -> "0" [] n = 1 -> "1" [] n = 2 -> "2" [] n = 3 -> "3"
              [] n = 4 -> "4" [] n = 5 -> "5" [] n = 6 -> "6" [] n = 7 -> "7"
              [] n = 8 -> "8" [] n = 9 -> "9"

RECURSIVE toString(_)
\* Number.prototype.toString for a non-negative integer
toString(n) == IF n < 10 THEN <<Digit(n)>> ELSE toString(n \div 10) \o <<Digit(n % 10)>>

RECURSIVE padStart(_, _, _)
\* String.prototype.padStart(targetLength, padString) with a one-character pad
padStart(s, targetLength, c) ==
    IF Len(s) >= targetLength THEN s ELSE padStart(<<c>> \o s, targetLength, c)

\* String.prototype.slice(begin, end) for 0 <= begin, end
slice(s, begin, end) ==
    IF begin >= end THEN <<>> ELSE SubSeq(s, begin + 1, IF end > Len(s) THEN Len(s) ELSE end)

\* `a || b` on strings
OrElse(a, b) == IF a = <<>> THEN b ELSE a

-----------------------------------------------------------------------------
(* ~/logic/tokens/utils/tokenHelpers *)

\* data.substring(0, 10)
MethodId(d) == IF d.hex = <<>> THEN "" ELSE Head(d.hex)

\* data.slice(10)
Params(d) == IF d.hex = <<>> THEN <<>> ELSE Tail(d.hex)

isTokenTransfer(data, value) ==
    Truthy(data) /\ MethodId(data) = TRANSFER_METHOD_ID /\ value = 0

isMultisendTransaction(data, value) ==
    Truthy(data) /\ MethodId(data) = MULTISEND_METHOD_ID /\ value = 0

isUpgradeTransaction(data) ==
    Truthy(data) /\ \E i \in 1..Len(Params(data)) : Params(data)[i] = CHANGE_MASTER_COPY_ID

\* code.includes(SAFE_TRANSFER_FROM_WITHOUT_DATA_HASH)
includes(code, hash) == \E i \in 1..Len(code.hex) : code.hex[i] = hash

-----------------------------------------------------------------------------
(* Parameter decoding *)

NoParams == [kind |-> "undefined", methodName |-> "", args |-> <<>>]

Returned(v) == [threw |-> FALSE, val |-> v]

Threw == [threw |-> TRUE, val |-> NoParams]

\* web3ReadOnly.eth.abi.decodeParameters(['address', 'uint256'], tx.data.slice(10))
\* followed by { recipient: params[0], value: params[1] }; the decoder throws
\* when the payload is shorter than the two words it has to read
decodeTransferParams(data) ==
    IF Len(Params(data)) >= 2
    THEN Returned([kind |-> "transfer", methodName |-> "",
                   args |-> <<Params(data)[1], Params(data)[2]>>])
    ELSE Threw

\* ~/logic/contracts/methodIds decodeParamsFromSafeMethod: a switch on the
\* method id; known Safe methods decode their arguments, any other id gives {}
decodeParamsFromSafeMethod(data) ==
    IF MethodId(data) = ADD_OWNER_METHOD_ID
    THEN IF Len(Params(data)) >= 2
         THEN Returned([kind |-> "method", methodName |-> "addOwnerWithThreshold",
                        args |-> <<Params(data)[1], Params(data)[2]>>])
         ELSE Threw
    ELSE Returned([kind |-> "empty", methodName |-> "", args |-> <<>>])

-----------------------------------------------------------------------------
(* Token lookups: getTokenInfos and the ALTERNATIVE_TOKEN_ABI batch *)

NotCalled == [called |-> FALSE, ok |-> FALSE, symbol |-> "", decimals |-> 0]

Failed == [called |-> TRUE, ok |-> FALSE, symbol |-> "", decimals |-> 0]

Symbols == {"TKN", "ALT"}

\* what a lookup that is made can settle with
LookupOutcomes ==
    {Failed} \cup {[called |-> TRUE, ok |-> TRUE, symbol |-> s, decimals |-> d] :
                      s \in Symbols, d \in 0..MaxDecimals}

-----------------------------------------------------------------------------
(* buildTransactionFrom *)

NoRefund == [present |-> FALSE, fee |-> <<>>, symbol |-> ""]

\* RefundParams without the `|| '0'` of line 97
RefundParamsNoZeroWhole(tx, refundSymbol, refundDecimals) ==
    LET feeString == padStart(toString(tx.gasPrice * (tx.baseGas + tx.safeTxGas)),
                              refundDecimals, "0")
        whole == slice(feeString, 0, Len(feeString) - refundDecimals)
        fraction == slice(feeString, Len(feeString) - refundDecimals, Len(feeString))
    IN  [present |-> TRUE, fee |-> whole \o <<".">> \o fraction, symbol |-> refundSymbol]

\* lines 96-104: the refund of a transaction with gasPrice > 0
RefundParams(tx, refundSymbol, refundDecimals) ==
    LET feeString == padStart(toString(tx.gasPrice * (tx.baseGas + tx.safeTxGas)),
                              refundDecimals, "0")
        whole == OrElse(slice(feeString, 0, Len(feeString) - refundDecimals), <<"0">>)
        fraction == slice(feeString, Len(feeString) - refundDecimals, Len(feeString))
    IN  [present |-> TRUE, fee |-> whole \o <<".">> \o fraction, symbol |-> refundSymbol]

\* Flags with a customTx that does not exclude token transfers
FlagsCustomKeepsTransfers(safe, tx, knownTokens, code) ==
    LET modifySettingsTx == sameAddress(tx.to, safe) /\ tx.value = 0 /\ Truthy(tx.data)
        cancellationTx == sameAddress(tx.to, safe) /\ tx.value = 0 /\ ~Truthy(tx.data)
        isERC721Token ==
            \/ Truthy(code) /\ includes(code, SAFE_TRANSFER_FROM_WITHOUT_DATA_HASH)
            \/ isTokenTransfer(tx.data, tx.value) /\ tx.to \notin knownTokens
        isSendTokenTx == ~isERC721Token /\ isTokenTransfer(tx.data, tx.value)
        isMultiSendTx == isMultisendTransaction(tx.data, tx.value)
        isUpgradeTx == isMultiSendTx /\ isUpgradeTransaction(tx.data)
        customTx == /\ ~sameAddress(tx.to, safe) /\ Truthy(tx.data)
                    /\ ~isUpgradeTx /\ ~isERC721Token
    IN  [modifySettingsTx |-> modifySettingsTx, cancellationTx |-> cancellationTx,
         isERC721Token |-> isERC721Token, isSendTokenTx |-> isSendTokenTx,
         isMultiSendTx |-> isMultiSendTx, isUpgradeTx |-> isUpgradeTx,
         customTx |-> customTx]

\* Flags with an isUpgradeTx that does not ask for a multi-send
FlagsUpgradeAlone(safe, tx, knownTokens, code) ==
    LET modifySettingsTx == sameAddress(tx.to, safe) /\ tx.value = 0 /\ Truthy(tx.data)
        cancellationTx == sameAddress(tx.to, safe) /\ tx.value = 0 /\ ~Truthy(tx.data)
        isERC721Token ==
            \/ Truthy(code) /\ includes(code, SAFE_TRANSFER_FROM_WITHOUT_DATA_HASH)
            \/ isTokenTransfer(tx.data, tx.value) /\ tx.to \notin knownTokens
        isSendTokenTx == ~isERC721Token /\ isTokenTransfer(tx.data, tx.value)
        isMultiSendTx == isMultisendTransaction(tx.data, tx.value)
        isUpgradeTx == isUpgradeTransaction(tx.data)
        customTx == /\ ~sameAddress(tx.to, safe) /\ Truthy(tx.data)
                    /\ ~isSendTokenTx /\ ~isUpgradeTx /\ ~isERC721Token
    IN  [modifySettingsTx |-> modifySettingsTx, cancellationTx |-> cancellationTx,
         isERC721Token |-> isERC721Token, isSendTokenTx |-> isSendTokenTx,
         isMultiSendTx |-> isMultiSendTx, isUpgradeTx |-> isUpgradeTx,
         customTx |-> customTx]

\* Flags with an isSendTokenTx that does not give way to ERC721
FlagsTransferOverERC721(safe, tx, knownTokens, code) ==
    LET modifySettingsTx == sameAddress(tx.to, safe) /\ tx.value = 0 /\ Truthy(tx.data)
        cancellationTx == sameAddress(tx.to, safe) /\ tx.value = 0 /\ ~Truthy(tx.data)
        isERC721Token ==
            \/ Truthy(code) /\ includes(code, SAFE_TRANSFER_FROM_WITHOUT_DATA_HASH)
            \/ isTokenTransfer(tx.data, tx.value) /\ tx.to \notin knownTokens
        isSendTokenTx == isTokenTransfer(tx.data, tx.value)
        isMultiSendTx == isMultisendTransaction(tx.data, tx.value)
        isUpgradeTx == isMultiSendTx /\ isUpgradeTransaction(tx.data)
        customTx == /\ ~sameAddress(tx.to, safe) /\ Truthy(tx.data)
                    /\ ~isSendTokenTx /\ ~isUpgradeTx /\ ~isERC721Token
    IN  [modifySettingsTx |-> modifySettingsTx, cancellationTx |-> cancellationTx,
         isERC721Token |-> isERC721Token, isSendTokenTx |-> isSendTokenTx,
         isMultiSendTx |-> isMultiSendTx, isUpgradeTx |-> isUpgradeTx,
         customTx |-> customTx]

\* lines 77-85: the provisional classification
Flags(safe, tx, knownTokens, code) ==
    LET modifySettingsTx == sameAddress(tx.to, safe) /\ tx.value = 0 /\ Truthy(tx.data)
        cancellationTx == sameAddress(tx.to, safe) /\ tx.value = 0 /\ ~Truthy(tx.data)
        isERC721Token ==
            \/ Truthy(code) /\ includes(code, SAFE_TRANSFER_FROM_WITHOUT_DATA_HASH)
            \/ isTokenTransfer(tx.data, tx.value) /\ tx.to \notin knownTokens
        isSendTokenTx == ~isERC721Token /\ isTokenTransfer(tx.data, tx.value)
        isMultiSendTx == isMultisendTransaction(tx.data, tx.value)
        isUpgradeTx == isMultiSendTx /\ isUpgradeTransaction(tx.data)
        customTx == /\ ~sameAddress(tx.to, safe) /\ Truthy(tx.data)
                    /\ ~isSendTokenTx /\ ~isUpgradeTx /\ ~isERC721Token
    IN  [modifySettingsTx |-> modifySettingsTx, cancellationTx |-> cancellationTx,
         isERC721Token |-> isERC721Token, isSendTokenTx |-> isSendTokenTx,
         isMultiSendTx |-> isMultiSendTx, isUpgradeTx |-> isUpgradeTx,
         customTx |-> customTx]

\* the lookups a call of buildTransactionFrom makes, given how they settle
NeedsGasToken(tx) == tx.gasPrice > 0 /\ tx.gasToken # ZERO_ADDRESS

GasTokenOutcomes(tx, outcomes) == IF NeedsGasToken(tx) THEN outcomes ELSE {NotCalled}

PrimaryOutcomes(safe, tx, knownTokens, code, gasTok, outcomes) ==
    IF (NeedsGasToken(tx) => gasTok.ok) /\ Flags(safe, tx, knownTokens, code).isSendTokenTx
    THEN outcomes ELSE {NotCalled}

SecondaryOutcomes(primary, outcomes) ==
    IF primary.called /\ ~primary.ok THEN outcomes ELSE {NotCalled}

\* makeTransaction(...) of lines 148-180
makeTransaction(tx, f, symbol, decimals, refundParams, decodedParams) ==
    [symbol |-> symbol,
     decimals |-> decimals,
     value |-> toString(tx.value),
     recipient |-> tx.to,
     data |-> IF Truthy(tx.data) THEN tx.data.hex ELSE EMPTY_DATA,
     safeTxGas |-> tx.safeTxGas,
     baseGas |-> tx.baseGas,
     gasPrice |-> tx.gasPrice,
     gasToken |-> tx.gasToken,
     refundParams |-> refundParams,
     safeTxHash |-> tx.safeTxHash,
     isTokenTransfer |-> f.isSendTokenTx,
     multiSendTx |-> f.isMultiSendTx,
     upgradeTx |-> f.isUpgradeTx,
     decodedParams |-> decodedParams,
     modifySettingsTx |-> f.modifySettingsTx,
     customTx |-> f.customTx,
     cancellationTx |-> f.cancellationTx,
     creationTx |-> tx.creationTx]

BlankTx == [to |-> "", value |-> 0, data |-> Null, gasPrice |-> 0, baseGas |-> 0,
            safeTxGas |-> 0, gasToken |-> ZERO_ADDRESS, safeTxHash |-> "",
            creationTx |-> FALSE]

BlankRecord ==
    makeTransaction(BlankTx, Flags("", BlankTx, {}, Null), "", 0, NoRefund, NoParams)

Rejected(at, lookups) ==
    [rejected |-> TRUE, at |-> at, record |-> BlankRecord, lookups |-> lookups]

Fulfilled(rec, lookups) ==
    [rejected |-> FALSE, at |-> "", record |-> rec, lookups |-> lookups]

\* Refund that also formats a fee for gasPrice 0
RefundForAnyGasPrice(tx, gasTok) ==
    IF tx.gasPrice >= 0
    THEN IF tx.gasToken # ZERO_ADDRESS
         THEN RefundParams(tx, gasTok.symbol, gasTok.decimals)
         ELSE RefundParams(tx, ETH_SYMBOL, ETH_DECIMALS)
    ELSE NoRefund

\* lines 87-105: refundParams
Refund(tx, gasTok) ==
    IF tx.gasPrice > 0
    THEN IF tx.gasToken # ZERO_ADDRESS
         THEN RefundParams(tx, gasTok.symbol, gasTok.decimals)
         ELSE RefundParams(tx, ETH_SYMBOL, ETH_DECIMALS)
    ELSE NoRefund

\* TokenInfo that drops the result of the second lookup
TokenInfoPrimaryOnly(f0, primary, secondary) ==
    IF f0.isSendTokenTx /\ primary.ok
    THEN [symbol |-> primary.symbol, decimals |-> primary.decimals]
    ELSE [symbol |-> ETH_SYMBOL, decimals |-> ETH_DECIMALS]

\* lines 107-108, 112-127: symbol and decimals after the token lookups
TokenInfo(f0, primary, secondary) ==
    IF f0.isSendTokenTx /\ primary.ok
    THEN [symbol |-> primary.symbol, decimals |-> primary.decimals]
    ELSE IF f0.isSendTokenTx /\ secondary.ok
    THEN [symbol |-> secondary.symbol, decimals |-> secondary.decimals]
    ELSE [symbol |-> ETH_SYMBOL, decimals |-> ETH_DECIMALS]

\* Reclassify of a catch block that leaves the flags alone
ReclassifyNever(f0, primary, secondary) == f0

\* lines 128-134: the catch of the second lookup
Reclassify(f0, primary, secondary) ==
    IF f0.isSendTokenTx /\ ~primary.ok /\ ~secondary.ok
    THEN [f0 EXCEPT !.isSendTokenTx = FALSE, !.customTx = TRUE]
    ELSE f0

\* lines 110, 137-146: the branch is taken on the flags as they are on entry
\* to the if statement, the decode of the first branch follows its try/catch
DecodedParams(f0, tx) ==
    IF f0.isSendTokenTx THEN decodeTransferParams(tx.data)
    ELSE IF f0.modifySettingsTx /\ Truthy(tx.data) THEN decodeParamsFromSafeMethod(tx.data)
    ELSE IF f0.customTx /\ Truthy(tx.data) THEN decodeParamsFromSafeMethod(tx.data)
    ELSE Returned(NoParams)

\* buildTransactionFrom(safeAddress, tx, knownTokens, code) when its lookups
\* settle as gasTok, primary, secondary: the promise it returns is fulfilled
\* with a record or rejected at the first statement that throws
buildTransactionFrom(safe, tx, knownTokens, code, gasTok, primary, secondary) ==
    LET f0 == Flags(safe, tx, knownTokens, code)
        lookups == [gasToken |-> gasTok, primary |-> primary, secondary |-> secondary]
        token == TokenInfo(f0, primary, secondary)
        decoded == DecodedParams(f0, tx)
    IN  IF NeedsGasToken(tx) /\ ~gasTok.ok
        THEN Rejected("getTokenInfos", lookups)
        ELSE IF decoded.threw
        THEN Rejected("decodeParameters", lookups)
        ELSE Fulfilled(makeTransaction(tx, Reclassify(f0, primary, secondary), token.symbol,
                                       token.decimals, Refund(tx, gasTok), decoded.val),
                       lookups)

-----------------------------------------------------------------------------
(* Arguments buildTransactionFrom is called with *)

DataValues ==
    {Null, Str(<<>>),
     Str(<<TRANSFER_METHOD_ID, "0xrcpt", "5">>), Str(<<TRANSFER_METHOD_ID>>),
     Str(<<MULTISEND_METHOD_ID, "0xsub">>), Str(<<MULTISEND_METHOD_ID, CHANGE_MASTER_COPY_ID>>),
     Str(<<ADD_OWNER_METHOD_ID, "0xowner", "2">>), Str(<<ADD_OWNER_METHOD_ID>>),
     Str(<<"0xdeadbeef", "0x1">>)}

\* getCode results: the lookup failed, no contract, an ERC20, an ERC721
CodeValues ==
    {Null, Str(<<>>), Str(<<"a9059cbb", "70a08231">>),
     Str(<<"a9059cbb", SAFE_TRANSFER_FROM_WITHOUT_DATA_HASH>>)}

\* raw transactions that differ in what the classification reads
ClassifyTxs ==
    {[to |-> t, value |-> v, data |-> d, gasPrice |-> g.gasPrice, baseGas |-> 1,
      safeTxGas |-> 1, gasToken |-> g.gasToken, safeTxHash |-> "h1", creationTx |-> FALSE] :
        t \in {SafeA, SafeAChecksum, TokenT, Other, ""}, v \in {0, 1}, d \in DataValues,
        g \in {[gasPrice |-> 0, gasToken |-> ZERO_ADDRESS], [gasPrice |-> 1, gasToken |-> TokenG]}}

\* raw transactions that differ in what the refund computation reads
RefundTxs ==
    {[to |-> Other, value |-> 1, data |-> Null, gasPrice |-> gp, baseGas |-> bg,
      safeTxGas |-> sg, gasToken |-> gt, safeTxHash |-> "h1", creationTx |-> FALSE] :
        gp \in 0..MaxGasPrice, bg \in 0..MaxGas, sg \in 0..MaxGas,
        gt \in {ZERO_ADDRESS, TokenG}}

NormArgs ==
    {[safe |-> SafeA, tx |-> tx, knownTokens |-> k, code |-> c] :
        tx \in ClassifyTxs, k \in SUBSET {TokenT, SafeA}, c \in CodeValues}
    \cup
    {[safe |-> SafeA, tx |-> tx, knownTokens |-> {TokenT}, code |-> Str(<<>>)] :
        tx \in RefundTxs}

NotSettled ==
    [settled |-> FALSE, rejected |-> FALSE, at |-> "", record |-> BlankRecord,
     lookups |-> [gasToken |-> NotCalled, primary |-> NotCalled, secondary |-> NotCalled]]

Settled(out) ==
    [settled |-> TRUE, rejected |-> out.rejected, at |-> out.at, record |-> out.record,
     lookups |-> out.lookups]

-----------------------------------------------------------------------------
(* safeStorageMware (components/Sidebar/index.jsx, lines 164-233) *)

ADD_SAFE == "ADD_SAFE"
UPDATE_SAFE == "UPDATE_SAFE"
REMOVE_SAFE == "REMOVE_SAFE"
ADD_SAFE_OWNER == "ADD_SAFE_OWNER"
REMOVE_SAFE_OWNER == "REMOVE_SAFE_OWNER"
REPLACE_SAFE_OWNER == "REPLACE_SAFE_OWNER"
EDIT_SAFE_OWNER == "EDIT_SAFE_OWNER"
ACTIVATE_TOKEN_FOR_ALL_SAFES == "ACTIVATE_TOKEN_FOR_ALL_SAFES"
SET_DEFAULT_SAFE == "SET_DEFAULT_SAFE"
ADD_ENTRY == "ADD_ENTRY"
FETCH_TOKENS == "FETCH_TOKENS"

\* lines 164-174
watchedActions ==
    {ADD_SAFE, UPDATE_SAFE, REMOVE_SAFE, ADD_SAFE_OWNER, REMOVE_SAFE_OWNER,
     REPLACE_SAFE_OWNER, EDIT_SAFE_OWNER, ACTIVATE_TOKEN_FOR_ALL_SAFES, SET_DEFAULT_SAFE}

\* a middleware that persists after every action
IsWatchedAlways(type) == TRUE

\* line 194: watchedActions.includes(action.type)
IsWatched(type) == type \in watchedActions

Owners == {"0xown1", "0xown2"}

SafeAddrs == {SafeA, SafeB}

\* the actions the application dispatches; address is '' for a
\* SET_DEFAULT_SAFE without payload
Actions ==
    {[type |-> t, address |-> a, owners |-> o, activeTokens |-> at] :
        t \in watchedActions \cup {ADD_ENTRY, FETCH_TOKENS}, a \in SafeAddrs \cup {""},
        o \in SUBSET Owners, at \in BOOLEAN}

\* the payload each action type carries
WellFormed(a) ==
    /\ a.type # ADD_SAFE => a.owners = (IF a.type = ADD_ENTRY THEN {"0xown1"} ELSE {})
    /\ a.type # UPDATE_SAFE => ~a.activeTokens
    /\ a.address = "" => a.type = SET_DEFAULT_SAFE

\* addAddressBookEntry(makeAddressBookEntry({ ...owner, isOwner: true }))
addAddressBookEntry(owner) ==
    [type |-> ADD_ENTRY, address |-> SafeA, owners |-> {owner}, activeTokens |-> FALSE]

Bump(v) == IF v = "v0" THEN "v1" ELSE IF v = "v1" THEN "v0" ELSE v

\* next(action): the reducers behind the middleware
Reduce(st, a) ==
    CASE a.type = ADD_SAFE -> [st EXCEPT !.safes[a.address] = "v0"]
      [] a.type = REMOVE_SAFE -> [st EXCEPT !.safes[a.address] = "absent"]
      [] a.type \in {UPDATE_SAFE, ADD_SAFE_OWNER, REMOVE_SAFE_OWNER, REPLACE_SAFE_OWNER,
                     EDIT_SAFE_OWNER} -> [st EXCEPT !.safes[a.address] = Bump(@)]
      [] a.type = ACTIVATE_TOKEN_FOR_ALL_SAFES ->
            [st EXCEPT !.safes = [x \in SafeAddrs |-> Bump(st.safes[x])]]
      [] a.type = SET_DEFAULT_SAFE -> [st EXCEPT !.defaultSafe = a.address]
      [] a.type = ADD_ENTRY -> [st EXCEPT !.addressBook = @ \cup a.owners]
      [] OTHER -> st

\* safes.toJSON(): the object with one key per safe of the map
toJSON(safes) == {<<x, safes[x]>> : x \in {y \in SafeAddrs : safes[y] # "absent"}}

\* lines 192-197: store.getState() is called after next(action)
StateRead(before, after) == after

\* what safeStorageMware did with an action: whether it called saveSafes,
\* with what, and the safes map after next(action)
LogEntry(before, a, byMiddleware) ==
    LET after == Reduce(before, a)
    IN  [type |-> a.type, byMiddleware |-> byMiddleware, saved |-> IsWatched(a.type),
         json |-> IF IsWatched(a.type) THEN toJSON(StateRead(before, after).safes) ELSE {},
         afterSafes |-> after.safes]

\* the call suspended at line 198
Suspended(before, a) ==
    [action |-> a, state |-> StateRead(before, Reduce(before, a))]

MwInit ==
    /\ store = [safes |-> [x \in SafeAddrs |-> "absent"], defaultSafe |-> "",
                addressBook |-> {}]
    /\ storage = [safes |-> {}, defaultSafe |-> "", activeTokens |-> {}]
    /\ mwPending = {}
    /\ mwLog = {}
    /\ dispatches = 0

\* lines 191-198, 232: an action enters the middleware; next(action) runs and,
\* for a watched action, saveSafes is called with the safes of the new state
Dispatch(a) ==
    /\ dispatches < MaxDispatches
    /\ WellFormed(a)
    /\ dispatches' = dispatches + 1
    /\ store' = Reduce(store, a)
    /\ mwLog' = mwLog \cup {LogEntry(store, a, FALSE)}
    /\ mwPending' = IF IsWatched(a.type) THEN mwPending \cup {Suspended(store, a)}
                    ELSE mwPending
    /\ UNCHANGED <<storage, loadVars, normTx, normOut>>

\* lines 198-230: saveSafes resolved and the switch runs; the address-book
\* entries of ADD_SAFE are dispatched through the middleware in their turn
SaveResolved(m) ==
    /\ m \in mwPending
    /\ LET a == m.action
           entries == IF a.type = ADD_SAFE THEN {addAddressBookEntry(o) : o \in a.owners}
                      ELSE {}
           recalculate == \/ a.type = ACTIVATE_TOKEN_FOR_ALL_SAFES
                          \/ a.type = UPDATE_SAFE /\ a.activeTokens
       IN  /\ storage' =
                [safes |-> toJSON(m.state.safes),
                 defaultSafe |-> IF a.type = SET_DEFAULT_SAFE /\ a.address # ""
                                 THEN a.address ELSE storage.defaultSafe,
                 activeTokens |-> IF recalculate THEN toJSON(m.state.safes)
                                  ELSE storage.activeTokens]
           /\ store' = [store EXCEPT !.addressBook = @ \cup UNION {e.owners : e \in entries}]
           /\ mwLog' = mwLog \cup {LogEntry(store, e, TRUE) : e \in entries}
           /\ mwPending' = (mwPending \ {m}) \cup
                           {Suspended(store, e) : e \in {x \in entries : IsWatched(x.type)}}
    /\ UNCHANGED <<dispatches, loadVars, normTx, normOut>>

MwNext ==
    \/ \E a \in Actions : Dispatch(a)
    \/ \E m \in mwPending : SaveResolved(m)

-----------------------------------------------------------------------------
(* loadOutgoingTransactions: state before any invocation *)

Procs == {1, 2}

NoEtag == "null"

NoResponse == [kind |-> "none", count |-> 0, etag |-> NoEtag, stored |-> NoEtag]

NoGroup == [defined |-> FALSE, list |-> <<>>]

NoReturn == [kind |-> "pending", outgoing |-> NoGroup, cancel |-> NoGroup]

LoadInit ==
    /\ prevSaveTransactionsEtag = NoEtag
    /\ tokens \in SUBSET {TokenT}
    /\ pc = [p \in Procs |-> "idle"]
    /\ safeAddress = [p \in Procs |-> ""]
    /\ config = [p \in Procs |-> "none"]
    /\ response = [p \in Procs |-> NoResponse]
    /\ transactions = [p \in Procs |-> <<>>]
    /\ txsWithData = [p \in Procs |-> <<>>]
    /\ txsRecord = [p \in Procs |-> <<>>]
    /\ ret = [p \in Procs |-> NoReturn]
    /\ logged = [p \in Procs |-> FALSE]
    /\ delivered = {}

-----------------------------------------------------------------------------
(* loadOutgoingTransactions *)

Etags == {"e1", "e2"}

\* ../utils/addMockSafeCreationTx: the synthetic creation record
addMockSafeCreationTx(safe) ==
    <<[to |-> "", value |-> 0, data |-> Null, gasPrice |-> 0, baseGas |-> 0, safeTxGas |-> 0,
       gasToken |-> ZERO_ADDRESS, safeTxHash |-> "", creationTx |-> TRUE]>>

\* raw transactions the history service holds for a wallet
HistoryTxs(safe) ==
    {[to |-> safe, value |-> 0, data |-> Null, gasPrice |-> 0, baseGas |-> 0, safeTxGas |-> 0,
      gasToken |-> ZERO_ADDRESS, safeTxHash |-> "hc1", creationTx |-> FALSE],
     [to |-> safe, value |-> 0, data |-> Null, gasPrice |-> 0, baseGas |-> 0, safeTxGas |-> 0,
      gasToken |-> ZERO_ADDRESS, safeTxHash |-> "hc2", creationTx |-> FALSE],
     [to |-> TokenT, value |-> 0, data |-> Str(<<TRANSFER_METHOD_ID, "0xrcpt", "5">>),
      gasPrice |-> 1, baseGas |-> 1, safeTxGas |-> 1, gasToken |-> TokenG,
      safeTxHash |-> "ht", creationTx |-> FALSE],
     [to |-> Other, value |-> 1, data |-> Null, gasPrice |-> 0, baseGas |-> 0, safeTxGas |-> 0,
      gasToken |-> ZERO_ADDRESS, safeTxHash |-> "hp", creationTx |-> FALSE]}

\* lists of up to n distinct transactions out of txs, in any order
ListsOf(txs, n) ==
    UNION {{r \in [1..k -> txs] : \A i, j \in 1..k : r[i] = r[j] => i = j} : k \in 0..n}

\* response.data.results: up to n distinct transactions of the wallet, in any order
ResultLists(safe, n) == ListsOf(HistoryTxs(safe), n)

\* the same for a wallet that has made no token transfer
RaceResultLists(safe, n) ==
    ListsOf({tx \in HistoryTxs(safe) : tx.safeTxHash \in {"hc1", "hp"}}, n)

\* eth.getCode of the chain the wallet lives on
ChainCode(addr) ==
    IF addr = TokenT THEN Str(<<"a9059cbb", "70a08231">>) ELSE Str(<<>>)

\* how the token lookups of the pipeline's records can settle
PipelineOutcomes == {Failed, [called |-> TRUE, ok |-> TRUE, symbol |-> "TKN", decimals |-> 2]}

\* a slot of the Promise.all over the buildTransactionFrom promises; rank is
\* the number of promises that had fulfilled before this one did
Pending == [done |-> FALSE, record |-> BlankRecord, rank |-> 0]

NumDone(slots) == Cardinality({i \in 1..Len(slots) : slots[i].done})

\* Fulfil that collects fulfilments in the order they arrive
FulfilInArrivalOrder(slots, i, rec) ==
    [slots EXCEPT ![NumDone(slots) + 1] =
        [done |-> TRUE, record |-> rec, rank |-> NumDone(slots)]]

\* line 242: Promise.all stores a fulfilment at the index of its promise
Fulfil(slots, i, rec) ==
    [slots EXCEPT ![i] = [done |-> TRUE, record |-> rec, rank |-> NumDone(slots)]]

\* StoredEtag that stores the ETag of every response
StoredEtagOfAnyResponse(count, etag, stored) == etag

\* lines 220, 226: the ETag is stored for a response with count > 0
StoredEtag(count, etag, stored) == IF count > 0 THEN etag ELSE stored

\* NotModified of a client that relies on the 304 status alone
NotModifiedNever(count, etag, stored) == FALSE

\* lines 220-221: count > 0 and the stored ETag is the response's
NotModified(count, etag, stored) == count > 0 /\ stored = etag

RECURSIVE Filter(_, _)
\* the members of a list for which the grouper returned the key, in list order
Filter(list, cancel) ==
    IF list = <<>> THEN <<>>
    ELSE IF Head(list).cancellationTx = cancel
         THEN <<Head(list)>> \o Filter(Tail(list), cancel)
         ELSE Filter(Tail(list), cancel)

\* GroupGet that keeps cancellations in the outgoing group
GroupGetKeepsCancel(list, cancel) ==
    IF cancel THEN IF Filter(list, TRUE) = <<>> THEN NoGroup
                   ELSE [defined |-> TRUE, list |-> Filter(list, TRUE)]
    ELSE IF list = <<>> THEN NoGroup ELSE [defined |-> TRUE, list |-> list]

\* List(txsRecord).groupBy(...).get(key): undefined when no record has the key
GroupGet(list, cancel) ==
    IF Filter(list, cancel) = <<>> THEN NoGroup
    ELSE [defined |-> TRUE, list |-> Filter(list, cancel)]

Records(slots) == [i \in 1..Len(slots) |-> slots[i].record]

Finish(p, r) ==
    /\ ret' = [ret EXCEPT ![p] = r]
    /\ pc' = [pc EXCEPT ![p] = "done"]

\* lines 207-219: entry up to the suspension at `await axios.get(url, config)`
Invoke(p, safe) ==
    /\ pc[p] \in {"idle", "done"}
    /\ safeAddress' = [safeAddress EXCEPT ![p] = safe]
    /\ transactions' = [transactions EXCEPT ![p] = addMockSafeCreationTx(safe)]
    /\ config' = [config EXCEPT ![p] = IF prevSaveTransactionsEtag # NoEtag
                                       THEN prevSaveTransactionsEtag ELSE "none"]
    /\ pc' = [pc EXCEPT ![p] = "fetching"]
    /\ response' = [response EXCEPT ![p] = NoResponse]
    /\ txsWithData' = [txsWithData EXCEPT ![p] = <<>>]
    /\ txsRecord' = [txsRecord EXCEPT ![p] = <<>>]
    /\ ret' = [ret EXCEPT ![p] = NoReturn]
    /\ logged' = [logged EXCEPT ![p] = FALSE]
    /\ UNCHANGED <<prevSaveTransactionsEtag, tokens, delivered, normTx, normOut, mwVars>>

\* lines 220-227, 238-240: the request resolved; up to `await batchTxTokenRequest`
HistoryFulfilled(p, lists) ==
    /\ pc[p] = "fetching"
    /\ \E results \in lists, etag \in Etags :
          /\ response' = [response EXCEPT ![p] =
                 [kind |-> "ok", count |-> Len(results), etag |-> etag,
                  stored |-> prevSaveTransactionsEtag]]
          /\ IF NotModified(Len(results), etag, prevSaveTransactionsEtag)
             THEN /\ Finish(p, [NoReturn EXCEPT !.kind = "undefined"])
                  /\ UNCHANGED <<prevSaveTransactionsEtag, transactions>>
             ELSE /\ transactions' = [transactions EXCEPT ![p] =
                         IF Len(results) > 0 THEN @ \o results ELSE @]
                  /\ prevSaveTransactionsEtag' =
                         StoredEtag(Len(results), etag, prevSaveTransactionsEtag)
                  /\ pc' = [pc EXCEPT ![p] = "batching"]
                  /\ UNCHANGED ret
    /\ UNCHANGED <<tokens, safeAddress, config, txsWithData, txsRecord, logged, delivered, normTx, normOut, mwVars>>

\* lines 228-240: the request rejected; 304 returns, anything else is logged
HistoryRejected(p) ==
    /\ pc[p] = "fetching"
    /\ \E status \in {"304", "404"} :
          /\ status = "304" => config[p] # "none"
          /\ response' = [response EXCEPT ![p] =
                 [kind |-> status, count |-> 0, etag |-> NoEtag,
                  stored |-> prevSaveTransactionsEtag]]
          /\ IF status = "304"
             THEN /\ Finish(p, [NoReturn EXCEPT !.kind = "undefined"])
                  /\ UNCHANGED logged
             ELSE /\ logged' = [logged EXCEPT ![p] = TRUE]
                  /\ pc' = [pc EXCEPT ![p] = "batching"]
                  /\ UNCHANGED ret
    /\ UNCHANGED <<prevSaveTransactionsEtag, tokens, safeAddress, config, transactions,
                   txsWithData, txsRecord, delivered, normTx, normOut, mwVars>>

\* lines 183-200, 240-244: the batch resolved with [tx, code] pairs and
\* buildTransactionFrom is called on each of them
BatchFulfilled(p) ==
    /\ pc[p] = "batching"
    /\ txsWithData' = [txsWithData EXCEPT ![p] =
           [i \in 1..Len(transactions[p]) |-> ChainCode(transactions[p][i].to)]]
    /\ txsRecord' = [txsRecord EXCEPT ![p] = [i \in 1..Len(transactions[p]) |-> Pending]]
    /\ pc' = [pc EXCEPT ![p] = "normalizing"]
    /\ UNCHANGED <<prevSaveTransactionsEtag, tokens, safeAddress, config, response,
                   transactions, ret, logged, delivered, normTx, normOut, mwVars>>

\* line 240: the batch rejected outside the try block
BatchRejected(p) ==
    /\ pc[p] = "batching"
    /\ Finish(p, [NoReturn EXCEPT !.kind = "rejected"])
    /\ UNCHANGED <<prevSaveTransactionsEtag, tokens, safeAddress, config, response,
                   transactions, txsWithData, txsRecord, logged, delivered, normTx, normOut, mwVars>>

\* lines 242-244: one of the buildTransactionFrom promises settles; Promise.all
\* keeps a fulfilment at the promise's index and rejects on the first rejection
BuildSettled(p, i) ==
    /\ pc[p] = "normalizing"
    /\ i \in 1..Len(txsRecord[p])
    /\ ~txsRecord[p][i].done
    /\ LET tx == transactions[p][i]
           code == txsWithData[p][i]
       IN  \E gasTok \in GasTokenOutcomes(tx, PipelineOutcomes) :
           \E primary \in PrimaryOutcomes(safeAddress[p], tx, tokens, code, gasTok,
                                          PipelineOutcomes) :
           \E secondary \in SecondaryOutcomes(primary, PipelineOutcomes) :
              LET out == buildTransactionFrom(safeAddress[p], tx, tokens, code,
                                              gasTok, primary, secondary)
              IN  IF out.rejected
                  THEN /\ Finish(p, [NoReturn EXCEPT !.kind = "rejected"])
                       /\ UNCHANGED txsRecord
                  ELSE /\ txsRecord' = [txsRecord EXCEPT ![p] = Fulfil(@, i, out.record)]
                       /\ UNCHANGED <<pc, ret>>
    /\ UNCHANGED <<prevSaveTransactionsEtag, tokens, safeAddress, config, response,
                   transactions, txsWithData, logged, delivered, normTx, normOut, mwVars>>

\* lines 246-251: every promise fulfilled; group and return
Return(p) ==
    /\ pc[p] = "normalizing"
    /\ \A i \in 1..Len(txsRecord[p]) : txsRecord[p][i].done
    /\ Finish(p, [kind |-> "result",
                  outgoing |-> GroupGet(Records(txsRecord[p]), FALSE),
                  cancel |-> GroupGet(Records(txsRecord[p]), TRUE)])
    /\ delivered' = IF response[p].kind = "ok"
                    THEN delivered \cup {<<safeAddress[p], response[p].etag>>}
                    ELSE delivered
    /\ UNCHANGED <<prevSaveTransactionsEtag, tokens, safeAddress, config, response,
                   transactions, txsWithData, txsRecord, logged, normTx, normOut, mwVars>>

Init ==
    /\ LoadInit
    /\ MwInit
    /\ normTx = CHOOSE a \in NormArgs : TRUE
    /\ normOut = NotSettled

\* one invocation at a time, for either wallet
Next ==
    \/ \E safe \in {SafeA, SafeB} : Invoke(1, safe)
    \/ HistoryFulfilled(1, ResultLists(safeAddress[1], MaxResults))
    \/ HistoryRejected(1)
    \/ BatchFulfilled(1)
    \/ BatchRejected(1)
    \/ \E i \in 1..(MaxResults + 1) : BuildSettled(1, i)
    \/ Return(1)

Spec == Init /\ [][Next]_vars

\* two invocations for the same wallet that overlap in any way
NextRace ==
    \E p \in Procs :
        \/ Invoke(p, SafeA)
        \/ HistoryFulfilled(p, RaceResultLists(safeAddress[p], MaxRaceResults))
        \/ HistoryRejected(p)
        \/ BatchFulfilled(p)
        \/ BatchRejected(p)
        \/ \E i \in 1..(MaxRaceResults + 1) : BuildSettled(p, i)
        \/ Return(p)

\* the store before any action is dispatched
InitMw == Init /\ tokens = {}

SpecMw == InitMw /\ [][MwNext]_vars

\* no token is known to the store: the wallet has made no token transfer
InitRace == Init /\ tokens = {}

SpecRace == InitRace /\ [][NextRace]_vars

-----------------------------------------------------------------------------
(* buildTransactionFrom on its own *)

NormInit ==
    /\ normTx \in NormArgs
    /\ normOut = NotSettled
    /\ LoadInit
    /\ MwInit
    /\ tokens = {}

\* one call of buildTransactionFrom, from entry to the settling of its promise
Normalize ==
    /\ ~normOut.settled
    /\ \E gasTok \in GasTokenOutcomes(normTx.tx, LookupOutcomes) :
       \E primary \in PrimaryOutcomes(normTx.safe, normTx.tx, normTx.knownTokens,
                                      normTx.code, gasTok, LookupOutcomes) :
       \E secondary \in SecondaryOutcomes(primary, LookupOutcomes) :
          normOut' = Settled(buildTransactionFrom(normTx.safe, normTx.tx, normTx.knownTokens,
                                                  normTx.code, gasTok, primary, secondary))
    /\ UNCHANGED <<normTx, loadVars, mwVars>>

NormNext == Normalize

SpecNorm == NormInit /\ [][NormNext]_vars

-----------------------------------------------------------------------------
(* Properties of buildTransactionFrom, checked under SpecNorm *)

NormFulfilled == normOut.settled /\ ~normOut.rejected

\* the flags of lines 77-85 for the arguments of the call
Provisional == Flags(normTx.safe, normTx.tx, normTx.knownTokens, normTx.code)

\* the number of the five classification flags a record has set
FlagCount(r) ==
    Cardinality({n \in {"modifySettingsTx", "cancellationTx", "isTokenTransfer",
                        "multiSendTx", "customTx"} : r[n]})

\* C1 as stated: every record buildTransactionFrom returns has exactly one of
\* modifySettingsTx, cancellationTx, isTokenTransfer, multiSendTx, customTx set.
C1_ExactlyOneFlag == NormFulfilled => FlagCount(normOut.record) = 1

\* C1 as amended: in every returned record at most one of cancellationTx,
\* isTokenTransfer and customTx is set, cancellationTx is never set together
\* with modifySettingsTx or multiSendTx, and isTokenTransfer is never set
\* together with multiSendTx.
C1_ExclusiveFlags ==
    NormFulfilled =>
        LET r == normOut.record
        IN  /\ ~(r.cancellationTx /\ r.isTokenTransfer)
            /\ ~(r.cancellationTx /\ r.customTx)
            /\ ~(r.isTokenTransfer /\ r.customTx)
            /\ ~(r.cancellationTx /\ r.modifySettingsTx)
            /\ ~(r.cancellationTx /\ r.multiSendTx)
            /\ ~(r.isTokenTransfer /\ r.multiSendTx)

\* a token transfer whose lookup succeeded has been returned with the one flag
C1_Witness ==
    /\ NormFulfilled
    /\ normOut.lookups.primary.ok
    /\ normOut.record.isTokenTransfer
    /\ FlagCount(normOut.record) = 1

\* C3: when a provisional token transfer fails both lookups, the returned
\* record has isTokenTransfer false, customTx true and the decodedParams of
\* decodeParamsFromSafeMethod.
C3_ReclassifiedAsCustom ==
    (/\ NormFulfilled
     /\ Provisional.isSendTokenTx
     /\ normOut.lookups.primary.called /\ ~normOut.lookups.primary.ok
     /\ normOut.lookups.secondary.called /\ ~normOut.lookups.secondary.ok)
    => /\ ~normOut.record.isTokenTransfer
       /\ normOut.record.customTx
       /\ normOut.record.decodedParams = decodeParamsFromSafeMethod(normTx.tx.data).val

\* C6: when a provisional token transfer fails the first lookup and the second
\* succeeds, the returned record has isTokenTransfer true, customTx as it was,
\* and the symbol and decimals the second lookup returned.
C6_SecondaryLookupUsed ==
    (/\ NormFulfilled
     /\ Provisional.isSendTokenTx
     /\ normOut.lookups.primary.called /\ ~normOut.lookups.primary.ok
     /\ normOut.lookups.secondary.ok)
    => /\ normOut.record.isTokenTransfer
       /\ normOut.record.customTx = Provisional.customTx
       /\ normOut.record.symbol = normOut.lookups.secondary.symbol
       /\ normOut.record.decimals = normOut.lookups.secondary.decimals

\* a record came back from a failed first and a successful second lookup
C6_Witness ==
    /\ NormFulfilled
    /\ Provisional.isSendTokenTx
    /\ normOut.lookups.primary.called /\ ~normOut.lookups.primary.ok
    /\ normOut.lookups.secondary.ok
    /\ normOut.record.symbol = "ALT"
    /\ normOut.record.decimals = 1

\* C7: a decode of the winning classification that throws does not abort the
\* call: a record is returned, with decodedParams absent.
C7_DecodeFailureSwallowed ==
    (/\ normOut.settled
     /\ NeedsGasToken(normTx.tx) => normOut.lookups.gasToken.ok
     /\ DecodedParams(Provisional, normTx.tx).threw)
    => /\ ~normOut.rejected
       /\ normOut.record.decodedParams = NoParams

IsDigit(c) == c \in {"0", "1", "2", "3", "4", "5", "6", "7", "8", "9"}

DigitValue(c) == CHOOSE n \in 0..9 : Digit(n) = c

RECURSIVE Numeral(_)
\* the number a sequence of digits denotes
Numeral(ds) ==
    IF ds = <<>> THEN 0
    ELSE 10 * Numeral(SubSeq(ds, 1, Len(ds) - 1)) + DigitValue(ds[Len(ds)])

\* the decimals the refund of the call was formatted with
RefundDecimals ==
    IF normTx.tx.gasToken # ZERO_ADDRESS THEN normOut.lookups.gasToken.decimals
    ELSE ETH_DECIMALS

\* fee is F written with the point d digits from the right
IsFixedPoint(fee, F, d) ==
    /\ Len(fee) >= d + 2
    /\ fee[Len(fee) - d] = "."
    /\ LET whole == SubSeq(fee, 1, Len(fee) - d - 1)
           fraction == SubSeq(fee, Len(fee) - d + 1, Len(fee))
       IN  /\ \A i \in 1..Len(whole) : IsDigit(whole[i])
           /\ \A i \in 1..Len(fraction) : IsDigit(fraction[i])
           /\ Len(whole) > 1 => whole[1] # "0"
           /\ Numeral(whole \o fraction) = F

\* C8: for every returned record with gasPrice > 0, refundParams.fee is
\* gasPrice * (baseGas + safeTxGas) in decimal with the point `decimals` digits
\* from the right, zero-padded, the whole part "0" when there is none.
C8_RefundFormatting ==
    (NormFulfilled /\ normTx.tx.gasPrice > 0)
    => /\ normOut.record.refundParams.present
       /\ IsFixedPoint(normOut.record.refundParams.fee,
                       normTx.tx.gasPrice * (normTx.tx.baseGas + normTx.tx.safeTxGas),
                       RefundDecimals)

\* gasPrice 2, baseGas 3, safeTxGas 4 and 2 decimals gave "0.14"
C8_Witness ==
    /\ NormFulfilled
    /\ normTx.tx.gasPrice = 2 /\ normTx.tx.baseGas = 3 /\ normTx.tx.safeTxGas = 4
    /\ normOut.lookups.gasToken.ok /\ normOut.lookups.gasToken.decimals = 2
    /\ normOut.record.refundParams.fee = <<"0", ".", "1", "4">>

-----------------------------------------------------------------------------
(* Properties of loadOutgoingTransactions, checked under Spec *)

Undefined == [NoReturn EXCEPT !.kind = "undefined"]

\* the invocation has neither asked for bytecode nor built a record
NoWorkDone(p) ==
    /\ pc[p] \notin {"batching", "normalizing"}
    /\ txsWithData[p] = <<>>
    /\ txsRecord[p] = <<>>

\* C2 as stated: whenever the response carries the stored ETag, whatever its
\* count, or the request is answered 304, the invocation returns undefined
\* without a bytecode lookup and without building a record.
C2_ShortCircuitAnyCount ==
    \A p \in Procs :
        (\/ response[p].kind = "ok" /\ response[p].etag = response[p].stored
         \/ response[p].kind = "304")
        => ret[p] = Undefined /\ NoWorkDone(p)

\* C2 as amended: whenever the response has count > 0 and carries the stored
\* ETag, or the request is answered 304, the invocation returns undefined
\* without a bytecode lookup and without building a record.
C2_ShortCircuit ==
    \A p \in Procs :
        (\/ /\ response[p].kind = "ok" /\ response[p].count > 0
            /\ response[p].etag = response[p].stored
         \/ response[p].kind = "304")
        => ret[p] = Undefined /\ NoWorkDone(p)

\* a non-empty response with the stored ETag ended the invocation
C2_Witness ==
    \E p \in Procs :
        /\ response[p].kind = "ok" /\ response[p].count > 0
        /\ response[p].etag = response[p].stored
        /\ pc[p] = "done" /\ ret[p] = Undefined

\* C4: no invocation of loadOutgoingTransactions rejects.
C4_NeverRejects == \A p \in Procs : ret[p].kind # "rejected"

\* C5: an invocation whose history request failed with something other than
\* 304 logs the error and returns a result holding the creation record alone.
C5_GenesisOnlyOnError ==
    \A p \in Procs :
        (pc[p] = "done" /\ response[p].kind = "404")
        => /\ logged[p]
           /\ ret[p].kind = "result"
           /\ Len(ret[p].outgoing.list) = 1
           /\ ret[p].outgoing.list[1].creationTx
           /\ ret[p].cancel.list = <<>>

\* the number of members of a list with the hash
Occurrences(list, hash) == Cardinality({i \in 1..Len(list) : list[i].safeTxHash = hash})

\* line 78 on the raw transaction
IsCancellation(safe, tx) == sameAddress(tx.to, safe) /\ tx.value = 0 /\ ~Truthy(tx.data)

\* C9: in every returned result each record is in exactly one group, in
\* cancel if and only if its cancellationTx is set, which is when its raw
\* transaction goes to the wallet with value 0 and no data.
C9_PartitionByCancellation ==
    \A p \in Procs :
        ret[p].kind = "result" =>
            /\ Len(ret[p].outgoing.list) + Len(ret[p].cancel.list) = Len(transactions[p])
            /\ \A i \in 1..Len(transactions[p]) :
                  LET tx == transactions[p][i]
                      r == txsRecord[p][i].record
                      inCancel == Occurrences(ret[p].cancel.list, tx.safeTxHash)
                      inOutgoing == Occurrences(ret[p].outgoing.list, tx.safeTxHash)
                  IN  /\ r.cancellationTx <=> IsCancellation(safeAddress[p], tx)
                      /\ inCancel = (IF IsCancellation(safeAddress[p], tx) THEN 1 ELSE 0)
                      /\ inOutgoing = (IF IsCancellation(safeAddress[p], tx) THEN 0 ELSE 1)

\* a result with a record in each group has been returned
C9_Witness ==
    \E p \in Procs :
        /\ ret[p].kind = "result"
        /\ Len(ret[p].cancel.list) = 1
        /\ ret[p].cancel.list[1].cancellationTx
        /\ Len(ret[p].outgoing.list) = 2

\* the index of the raw transaction with the hash in the input list
InputIndex(p, hash) == CHOOSE i \in 1..Len(transactions[p]) : transactions[p][i].safeTxHash = hash

\* the members of the group are in the order of their raw transactions
InInputOrder(p, list) ==
    \A a, b \in 1..Len(list) :
        a < b => InputIndex(p, list[a].safeTxHash) < InputIndex(p, list[b].safeTxHash)

\* C10: in every returned result the records of each group are in the order
\* of their raw transactions, creation record first, whatever the order in
\* which the buildTransactionFrom promises fulfilled.
C10_StablePartition ==
    \A p \in Procs :
        ret[p].kind = "result" =>
            /\ InInputOrder(p, ret[p].outgoing.list)
            /\ InInputOrder(p, ret[p].cancel.list)
            /\ ret[p].outgoing.list[1].creationTx

\* a result [creation, cancel, outgoing] was returned although the last
\* promise fulfilled first
C10_Witness ==
    \E p \in Procs :
        /\ ret[p].kind = "result"
        /\ Len(txsRecord[p]) = 3
        /\ txsRecord[p][3].rank = 0
        /\ txsRecord[p][2].record.cancellationTx
        /\ Len(ret[p].outgoing.list) = 2
        /\ ret[p].outgoing.list[2].safeTxHash = transactions[p][3].safeTxHash

-----------------------------------------------------------------------------
(* Further properties of loadOutgoingTransactions, checked under Spec *)

\* C11: an invocation whose history response has count 0 returns a result
\* whose outgoing group holds exactly one record, the creation record.
C11_GenesisSeedPresent ==
    \A p \in Procs :
        (pc[p] = "done" /\ response[p].kind = "ok" /\ response[p].count = 0)
        => /\ ret[p].kind = "result"
           /\ Len(ret[p].outgoing.list) = 1
           /\ ret[p].outgoing.list[1].creationTx

\* C19: in every returned result both outgoing[safeAddress] and
\* cancel[safeAddress] are defined lists, empty when the group has no member.
C19_BothGroupsDefined ==
    \A p \in Procs :
        ret[p].kind = "result" => ret[p].outgoing.defined /\ ret[p].cancel.defined

-----------------------------------------------------------------------------
(* Further properties of buildTransactionFrom, checked under SpecNorm *)

\* C12: in every returned record refundParams is present if and only if the
\* gasPrice of the raw transaction is greater than 0.
C12_RefundIffGasPrice ==
    NormFulfilled => (normOut.record.refundParams.present <=> normTx.tx.gasPrice > 0)

\* records came back with a refund for gasPrice 1
C12_Witness ==
    /\ NormFulfilled
    /\ normTx.tx.gasPrice = 1
    /\ normOut.record.refundParams.present
    /\ normOut.record.refundParams.fee # <<>>

\* C13: in every returned record upgradeTx implies multiSendTx.
C13_UpgradeImpliesMultiSend ==
    NormFulfilled => (normOut.record.upgradeTx => normOut.record.multiSendTx)

\* an upgrade has been returned
C13_Witness ==
    /\ NormFulfilled
    /\ normOut.record.upgradeTx
    /\ normOut.record.multiSendTx

\* C17: in every returned record with isTokenTransfer set, symbol and decimals
\* are those of a successful first lookup or, the first having failed, of a
\* successful second lookup; never the 'ETH' and 18 they start with.
C17_TransferHasResolvedToken ==
    (NormFulfilled /\ normOut.record.isTokenTransfer)
    => LET l == normOut.lookups
           r == normOut.record
       IN  /\ r.symbol # ETH_SYMBOL
           /\ \/ l.primary.ok /\ r.symbol = l.primary.symbol /\ r.decimals = l.primary.decimals
              \/ /\ l.primary.called /\ ~l.primary.ok /\ l.secondary.ok
                 /\ r.symbol = l.secondary.symbol /\ r.decimals = l.secondary.decimals

\* a token transfer came back with the token of its first lookup
C17_Witness ==
    /\ NormFulfilled
    /\ normOut.record.isTokenTransfer
    /\ normOut.lookups.primary.ok
    /\ normOut.record.symbol = "TKN"
    /\ normOut.record.decimals = 3

\* C18: in every returned record with isTokenTransfer set, the call data is a
\* token transfer, the destination is a known token and the bytecode of the
\* destination does not contain the safeTransferFrom selector.
C18_TransferNotERC721 ==
    (NormFulfilled /\ normOut.record.isTokenTransfer)
    => /\ Truthy(normTx.tx.data)
       /\ Head(normTx.tx.data.hex) = TRANSFER_METHOD_ID
       /\ normTx.tx.value = 0
       /\ normTx.tx.to \in normTx.knownTokens
       /\ \A i \in 1..Len(normTx.code.hex) :
             normTx.code.hex[i] # SAFE_TRANSFER_FROM_WITHOUT_DATA_HASH

\* a token transfer to a known token with ERC20 bytecode has been returned
C18_Witness ==
    /\ NormFulfilled
    /\ normOut.record.isTokenTransfer
    /\ normTx.tx.to = TokenT
    /\ normTx.code = Str(<<"a9059cbb", "70a08231">>)

-----------------------------------------------------------------------------
(* The stored ETag *)

\* C14: between the point where an invocation reads the stored ETag for its
\* If-None-Match header and the point where it compares and writes it, the
\* stored ETag does not change, however two invocations overlap.
C14_EtagStableWhileFetching ==
    [][\A p \in Procs :
          (pc[p] = "fetching" /\ pc'[p] = "fetching")
          => prevSaveTransactionsEtag' = prevSaveTransactionsEtag]_vars

\* C15: whenever an invocation for a wallet returns undefined, an earlier
\* invocation for that wallet has returned a result built from a response
\* that carried the stored ETag.
C15_UndefinedHasPreviousResult ==
    \A p \in Procs :
        ret[p] = Undefined => <<safeAddress[p], response[p].stored>> \in delivered

\* C16: the stored ETag changes only when an invocation receives a response
\* with count > 0 and an ETag other than the stored one, and it becomes that
\* ETag; a 304, a failed request, a response with count 0 and a response with
\* the stored ETag leave it as it is.
C16_EtagChangesOnlyOnNewData ==
    [][/\ prevSaveTransactionsEtag' # prevSaveTransactionsEtag
          => \E p \in Procs :
                /\ pc[p] = "fetching" /\ pc'[p] = "batching"
                /\ response'[p].kind = "ok"
                /\ response'[p].count > 0
                /\ response'[p].etag # prevSaveTransactionsEtag
                /\ prevSaveTransactionsEtag' = response'[p].etag
       /\ \A p \in Procs :
             (/\ pc[p] = "fetching" /\ pc'[p] # "fetching"
              /\ \/ response'[p].kind \in {"304", "404"}
                 \/ response'[p].count = 0
                 \/ response'[p].etag = prevSaveTransactionsEtag)
             => prevSaveTransactionsEtag' = prevSaveTransactionsEtag]_vars

\* a response with new data has replaced an ETag stored before, and a later
\* response with count 0 and another ETag has left it in place
C16_Witness ==
    \E p, q \in Procs :
        /\ response[p].kind = "ok" /\ response[p].count > 0
        /\ response[p].stored # NoEtag
        /\ response[p].stored # response[p].etag
        /\ response[q].kind = "ok" /\ response[q].count = 0
        /\ response[q].stored = response[p].etag
        /\ response[q].etag # response[q].stored
        /\ prevSaveTransactionsEtag = response[p].etag

-----------------------------------------------------------------------------
(* safeStorageMware, checked under SpecMw *)

\* C20: for every action passed through safeStorageMware, saveSafes is called
\* if and only if the type of the action is one of the nine watched types,
\* with the safes map of the state after next(action); the address-book
\* actions the middleware dispatches itself on ADD_SAFE are not watched and
\* cause no call of saveSafes.
C20_PersistOnWatchedActions ==
    \A e \in mwLog :
        /\ e.saved <=> e.type \in {"ADD_SAFE", "UPDATE_SAFE", "REMOVE_SAFE", "ADD_SAFE_OWNER",
                                   "REMOVE_SAFE_OWNER", "REPLACE_SAFE_OWNER", "EDIT_SAFE_OWNER",
                                   "ACTIVATE_TOKEN_FOR_ALL_SAFES", "SET_DEFAULT_SAFE"}
        /\ e.saved => e.json = toJSON(e.afterSafes)
        /\ e.byMiddleware => e.type = "ADD_ENTRY" /\ ~e.saved

\* an ADD_SAFE was persisted with the new safe in the map, and the entry of
\* its owner went through the middleware without a call of saveSafes
C20_Witness ==
    /\ \E e \in mwLog :
          /\ e.type = "ADD_SAFE" /\ e.saved
          /\ <<SafeA, "v0">> \in e.json
    /\ \E e \in mwLog : e.byMiddleware /\ e.type = "ADD_ENTRY" /\ ~e.saved
    /\ "0xown2" \in store.addressBook

====
